---- MODULE Spec2Model ----
(***************************************************************************)
(* Model of src/hello_world.py: the host-side loop that polls the "rgb"    *)
(* and "nn" output queues, keeps the latest frame and the latest detection *)
(* batch, draws the batch on the held frame, shows it and polls the quit   *)
(* key; and of frameNorm, which maps normalized box coordinates to pixels. *)
(*                                                                         *)
(* A normalized coordinate is an exact rational <<num, den>>, den > 0.     *)
(* frame.shape is <<height, width>> (the channel count plays no part).     *)
(* An optional value (Python's None or a value) is <<>> or <<value>>.      *)
(* The image a frame variable refers to is an object drawn on in place:    *)
(* frame holds the reference (id, shape), canvas the rectangles on it.     *)
(***************************************************************************)
EXTENDS Integers, Sequences, FiniteSets

VARIABLES
    pc,          \* position in the loop body, or "done" / "crashed"
    in_rgb,      \* result of q_rgb.tryGet() of this iteration
    in_nn,       \* result of q_nn.tryGet() of this iteration
    frame,       \* held frame (reference to an image object), or None
    detections,  \* held detection batch
    canvas,      \* rectangles drawn so far on the image frame refers to
    key,         \* last value returned by cv2.waitKey
    drawn,       \* cv2.rectangle calls of the latest render step, in order
    shown,       \* image passed to the latest cv2.imshow, or None
    rendered,    \* whether the latest render step called cv2.imshow
    iter,        \* iterations completed
    nFrames,     \* packets the rgb queue has delivered so far
    nTryGetRgb,  \* calls of q_rgb.tryGet so far
    nTryGetNn,   \* calls of q_nn.tryGet so far
    nWaitKey,    \* calls of cv2.waitKey so far
    lastBatch,   \* batch most recently delivered by the nn queue ([] before)
    noneRun      \* consecutive latest nn polls that returned None

vars == <<pc, in_rgb, in_nn, frame, detections, canvas, key, drawn, shown,
          rendered, iter, nFrames, nTryGetRgb, nTryGetNn, nWaitKey,
          lastBatch, noneRun>>

---------------------------------------------------------------------------
\* Bounds of the model.
MaxIter == 4
MaxBatch == 2
MaxDim == 3
GridDen == 2

\* Program constants.
PreviewWidth == 300
PreviewHeight == 300
QuitKey == 113
NoKey == -1

None == <<>>
Some(x) == <<x>>

---------------------------------------------------------------------------
\* Inputs.

\* Coordinates on the grid k/GridDen from -1 to 2: in range and out of range.
GridCoords == {<<n, GridDen>> : n \in (0 - GridDen)..(2 * GridDen)}

Box(a, b, c, d) == [xmin |-> a, ymin |-> b, xmax |-> c, ymax |-> d]

GridBoxes ==
    {Box(a, b, c, d) : a \in GridCoords, b \in GridCoords,
                       c \in GridCoords, d \in GridCoords}

ExampleBox == Box(<<1, 10>>, <<2, 10>>, <<5, 10>>, <<6, 10>>)
OutsideBox == Box(<<0 - 1, 2>>, <<1, 2>>, <<3, 2>>, <<1, 1>>)

PreviewShape == <<PreviewHeight, PreviewWidth>>
WideShape == <<MaxDim - 1, MaxDim>>
GridShapes == {<<h, w>> : h \in 1..MaxDim, w \in 1..MaxDim}

\* What the two queues and the keyboard can deliver to the loop.
LoopBoxes == {ExampleBox, OutsideBox}
LoopShapes == {PreviewShape, WideShape}
RECURSIVE SeqsUpTo(_, _)
SeqsUpTo(S, n) ==
    IF n = 0 THEN {<<>>}
    ELSE LET shorter == SeqsUpTo(S, n - 1)
         IN  shorter \cup {Append(s, x) : s \in shorter, x \in S}
Batches == SeqsUpTo(LoopBoxes, MaxBatch)
Keys == {NoKey, QuitKey, 81}

---------------------------------------------------------------------------
\* frameNorm.

Shape0(f) == f.shape[1]
Shape1(f) == f.shape[2]

\* faulty variant, for comparison: every entry the height
NormValsAllHeight(f, n) == [i \in 1..n |-> Shape0(f)]
\* normVals = np.full(len(bbox), frame.shape[0]); normVals[::2] = frame.shape[1]
NormVals(f, n) ==
    [i \in 1..n |-> IF (i - 1) % 2 = 0 THEN Shape1(f) ELSE Shape0(f)]

\* faulty variant, for comparison: no upper limit
ClipLowOnly(c, lo, hi) == IF c[1] < lo * c[2] THEN <<lo * c[2], c[2]>> ELSE c
\* np.clip(c, lo, hi)
Clip(c, lo, hi) ==
    IF c[1] < lo * c[2] THEN <<lo * c[2], c[2]>>
    ELSE IF c[1] > hi * c[2] THEN <<hi * c[2], c[2]>>
    ELSE c

\* c * k for an integer k
Mul(c, k) == <<c[1] * k, c[2]>>

\* faulty variant, for comparison: rounding to nearest instead of truncating
AsTypeIntRound(c) == (2 * c[1] + c[2]) \div (2 * c[2])
\* .astype(int): truncation toward zero
AsTypeInt(c) ==
    IF c[1] >= 0 THEN c[1] \div c[2] ELSE 0 - ((0 - c[1]) \div c[2])

frameNorm(f, bbox) ==
    LET normVals == NormVals(f, Len(bbox))
    IN  [i \in 1..Len(bbox) |-> AsTypeInt(Mul(Clip(bbox[i], 0, 1), normVals[i]))]

BBoxOf(d) == <<d.xmin, d.ymin, d.xmax, d.ymax>>

\* the arguments pt1, pt2 of cv2.rectangle for one detection
RectOf(f, d) ==
    LET bbox == frameNorm(f, BBoxOf(d))
    IN  <<<<bbox[1], bbox[2]>>, <<bbox[3], bbox[4]>>>>

\* the for loop over the held batch: one rectangle per detection, in order
DrawAll(f, ds) == [i \in 1..Len(ds) |-> RectOf(f, ds[i])]

Range(s) == {s[i] : i \in 1..Len(s)}

---------------------------------------------------------------------------
\* The loop.

\* in_rgb.getCvFrame(): a new image object for the packet
GetCvFrame(packet) == [id |-> packet.seq, shape |-> packet.shape]

\* faulty variant, for comparison: the delivered frame is dropped
NextFrameKeepsOld(rgb, f) == f
\* if in_rgb is not None: frame = in_rgb.getCvFrame()
NextFrame(rgb, f) == IF rgb # None THEN Some(GetCvFrame(rgb[1])) ELSE f

\* faulty variant, for comparison: the held batch is lost on None; the new batch is appended
NextDetectionsDropsHeld(nn, ds) == IF nn # None THEN nn[1].detections ELSE <<>>
NextDetectionsMerges(nn, ds) == IF nn # None THEN ds \o nn[1].detections ELSE ds
\* if in_nn is not None: detections = in_nn.detections
NextDetections(nn, ds) == IF nn # None THEN nn[1].detections ELSE ds

\* faulty variant, for comparison: no guard; guard on this iteration's packet
RenderGuardAlways(rgb, f) == TRUE
RenderGuardFreshOnly(rgb, f) == rgb # None
\* if frame is not None:
RenderGuard(rgb, f) == f # None

\* faulty variant, for comparison: no key quits; any key quits
QuitNever(k) == FALSE
QuitOnAnyKey(k) == k # NoKey
\* cv2.waitKey(1) == ord('q')
QuitObserved(k) == k = QuitKey

Init ==
    /\ pc = "poll_rgb"
    /\ in_rgb = None
    /\ in_nn = None
    /\ frame = None
    /\ detections = <<>>
    /\ canvas = {}
    /\ key = NoKey
    /\ drawn = <<>>
    /\ shown = None
    /\ rendered = FALSE
    /\ iter = 0
    /\ nFrames = 0
    /\ nTryGetRgb = 0
    /\ nTryGetNn = 0
    /\ nWaitKey = 0
    /\ lastBatch = <<>>
    /\ noneRun = 0

\* in_rgb = q_rgb.tryGet()
PollRgb ==
    /\ pc = "poll_rgb"
    /\ iter < MaxIter
    /\ \E r \in {None} \cup {Some([seq |-> nFrames + 1, shape |-> sh]) : sh \in LoopShapes} :
          /\ in_rgb' = r
          /\ nFrames' = IF r # None THEN nFrames + 1 ELSE nFrames
    /\ nTryGetRgb' = nTryGetRgb + 1
    /\ pc' = "poll_nn"
    /\ UNCHANGED <<in_nn, frame, detections, canvas, key, drawn, shown, rendered,
                   iter, nTryGetNn, nWaitKey, lastBatch, noneRun>>

\* in_nn = q_nn.tryGet()
PollNn ==
    /\ pc = "poll_nn"
    /\ \E r \in {None} \cup {Some([detections |-> b]) : b \in Batches} :
          /\ in_nn' = r
          /\ lastBatch' = IF r # None THEN r[1].detections ELSE lastBatch
          /\ noneRun' = IF r # None THEN 0 ELSE noneRun + 1
    /\ nTryGetNn' = nTryGetNn + 1
    /\ pc' = "update_frame"
    /\ UNCHANGED <<in_rgb, frame, detections, canvas, key, drawn, shown, rendered,
                   iter, nFrames, nTryGetRgb, nWaitKey>>

\* a new image object carries no rectangle; the held one keeps those drawn on it
UpdateFrame ==
    /\ pc = "update_frame"
    /\ frame' = NextFrame(in_rgb, frame)
    /\ canvas' = IF frame' # frame THEN {} ELSE canvas
    /\ pc' = "update_detections"
    /\ UNCHANGED <<in_rgb, in_nn, detections, key, drawn, shown, rendered, iter,
                   nFrames, nTryGetRgb, nTryGetNn, nWaitKey, lastBatch, noneRun>>

UpdateDetections ==
    /\ pc = "update_detections"
    /\ detections' = NextDetections(in_nn, detections)
    /\ pc' = "render"
    /\ UNCHANGED <<in_rgb, in_nn, frame, canvas, key, drawn, shown, rendered, iter,
                   nFrames, nTryGetRgb, nTryGetNn, nWaitKey, lastBatch, noneRun>>

\* Under the guard: frameNorm and cv2.rectangle per detection on the held image,
\* then cv2.imshow. frame.shape and cv2.imshow fail on None.
Render ==
    /\ pc = "render"
    /\ IF RenderGuard(in_rgb, frame)
       THEN IF frame = None
            THEN /\ pc' = "crashed"
                 /\ UNCHANGED <<canvas, drawn, shown, rendered>>
            ELSE /\ drawn' = DrawAll(frame[1], detections)
                 /\ canvas' = canvas \cup Range(drawn')
                 /\ shown' = Some([id |-> frame[1].id, rects |-> canvas'])
                 /\ rendered' = TRUE
                 /\ pc' = "key"
       ELSE /\ drawn' = <<>>
            /\ rendered' = FALSE
            /\ pc' = "key"
            /\ UNCHANGED <<canvas, shown>>
    /\ UNCHANGED <<in_rgb, in_nn, frame, detections, key, iter, nFrames,
                   nTryGetRgb, nTryGetNn, nWaitKey, lastBatch, noneRun>>

\* if cv2.waitKey(1) == ord('q'): break
WaitKey ==
    /\ pc = "key"
    /\ \E k \in Keys :
          /\ key' = k
          /\ pc' = IF QuitObserved(k) THEN "done" ELSE "poll_rgb"
    /\ nWaitKey' = nWaitKey + 1
    /\ iter' = iter + 1
    /\ UNCHANGED <<in_rgb, in_nn, frame, detections, canvas, drawn, shown,
                   rendered, nFrames, nTryGetRgb, nTryGetNn, lastBatch, noneRun>>

Next ==
    \/ PollRgb
    \/ PollNn
    \/ UpdateFrame
    \/ UpdateDetections
    \/ Render
    \/ WaitKey

Spec == Init /\ [][Next]_vars

\* frameNorm on bounded inputs: the first iteration has received a frame of any
\* shape and a batch of one box, and stands before its render step.
InitNorm ==
    /\ pc = "render"
    /\ \E sh \in GridShapes \cup {PreviewShape} :
          /\ in_rgb = Some([seq |-> 1, shape |-> sh])
          /\ frame = Some(GetCvFrame(in_rgb[1]))
    /\ \E b \in GridBoxes \cup {ExampleBox, OutsideBox} :
          /\ in_nn = Some([detections |-> <<b>>])
          /\ detections = in_nn[1].detections
          /\ lastBatch = detections
    /\ canvas = {}
    /\ key = NoKey
    /\ drawn = <<>>
    /\ shown = None
    /\ rendered = FALSE
    /\ iter = 0
    /\ nFrames = 1
    /\ nTryGetRgb = 1
    /\ nTryGetNn = 1
    /\ nWaitKey = 0
    /\ noneRun = 0

NextNorm == Render

SpecNorm == InitNorm /\ [][NextNorm]_vars

TypeOK ==
    /\ pc \in {"poll_rgb", "poll_nn", "update_frame", "update_detections",
               "render", "key", "done", "crashed"}
    /\ Len(in_rgb) <= 1 /\ Len(in_nn) <= 1 /\ Len(frame) <= 1 /\ Len(shown) <= 1
    /\ key \in Keys
    /\ rendered \in BOOLEAN
    /\ iter \in 0..MaxIter

---------------------------------------------------------------------------
\* Properties.

FrameWidth(f) == f.shape[2]
FrameHeight(f) == f.shape[1]
\* the frame dimension coordinate i of a box (xmin, ymin, xmax, ymax) refers to
DimOf(f, i) == IF i \in {1, 3} THEN FrameWidth(f) ELSE FrameHeight(f)
\* coordinate i of the corners (pt1, pt2) handed to cv2.rectangle
PixelOf(rect, i) == rect[(i + 1) \div 2][2 - (i % 2)]
Floor(c, d) == (c[1] * d) \div c[2]
InUnit(c) == 0 <= c[1] /\ c[1] <= c[2]
InRange(b) == \A i \in 1..4 : InUnit(BBoxOf(b)[i])

\* C1: for every coordinate c in [0,1] and positive frame dimension d, the
\* pixel value frameNorm produces for c is floor(c*d) and lies in 0..d.
C1_DenormFloor ==
    (pc = "key" /\ Len(drawn) = 1) =>
        \A i \in 1..4 :
            LET c == BBoxOf(detections[1])[i]
                d == DimOf(frame[1], i)
                r == PixelOf(drawn[1], i)
            IN  InUnit(c) => (r = Floor(c, d) /\ 0 <= r /\ r <= d)

\* a box inside [0,1] was drawn and one of its products c*d is no integer
C1_Witness ==
    /\ pc = "key"
    /\ Len(drawn) = 1
    /\ InRange(detections[1])
    /\ \E i \in 1..4 :
          (BBoxOf(detections[1])[i][1] * DimOf(frame[1], i)) % BBoxOf(detections[1])[i][2] # 0

ZeroBox == Box(<<0, 1>>, <<0, 1>>, <<0, 1>>, <<0, 1>>)
OneBox == Box(<<1, 1>>, <<1, 1>>, <<1, 1>>, <<1, 1>>)

\* C2: frameNorm clamps to [0,1] before scaling: a coordinate below 0 gives
\* the pixel value of 0, a coordinate above 1 the pixel value of 1, which is
\* the full frame dimension.
C2_Clamp ==
    (pc = "key" /\ Len(drawn) = 1) =>
        \A i \in 1..4 :
            LET c == BBoxOf(detections[1])[i]
                r == PixelOf(drawn[1], i)
            IN  /\ c[1] < 0 =>
                    r = 0 /\ r = PixelOf(RectOf(frame[1], ZeroBox), i)
                /\ c[1] > c[2] =>
                    r = DimOf(frame[1], i) /\ r = PixelOf(RectOf(frame[1], OneBox), i)

\* the box with xmin = -0.5 and xmax = 1.5 was drawn
C2_Witness ==
    /\ pc = "key"
    /\ detections = <<OutsideBox>>
    /\ Len(drawn) = 1
    /\ FrameWidth(frame[1]) # FrameHeight(frame[1])

\* C3: a detection inside [0,1] drawn on a W x H frame gets the corners
\* (trunc(xmin*W), trunc(ymin*H)) and (trunc(xmax*W), trunc(ymax*H)), also when
\* W differs from H; on 300x300, (0.1, 0.2, 0.5, 0.6) gives (30,60), (150,180).
C3_Corners ==
    (pc = "key" /\ rendered) =>
        /\ Len(drawn) = Len(detections)
        /\ \A k \in 1..Len(detections) :
              LET b == detections[k]
                  W == FrameWidth(frame[1])
                  H == FrameHeight(frame[1])
              IN  /\ InRange(b) =>
                        drawn[k] = <<<<Floor(b.xmin, W), Floor(b.ymin, H)>>,
                                     <<Floor(b.xmax, W), Floor(b.ymax, H)>>>>
                  /\ (b = ExampleBox /\ frame[1].shape = <<300, 300>>) =>
                        drawn[k] = <<<<30, 60>>, <<150, 180>>>>

\* the example detection was drawn on the 300x300 preview frame
C3_Witness ==
    /\ pc = "key"
    /\ rendered
    /\ frame # None
    /\ frame[1].shape = <<300, 300>>
    /\ detections = <<ExampleBox>>
    /\ canvas = {<<<<30, 60>>, <<150, 180>>>>}

\* C4: the held batch is the batch the nn queue delivered last, however many
\* polls have returned None since, and a frame that arrives in an iteration
\* whose nn poll returned None is drawn with exactly that batch.
C4_HoldDetections ==
    /\ pc \in {"render", "key", "poll_rgb", "done"} => detections = lastBatch
    /\ (pc = "key" /\ in_nn = None /\ in_rgb # None) =>
          /\ rendered
          /\ drawn = DrawAll(GetCvFrame(in_rgb[1]), lastBatch)
          /\ shown = Some([id |-> in_rgb[1].seq, rects |-> Range(drawn)])

\* two polls in a row returned None, then a frame arrived and was drawn with
\* the non-empty batch held since
C4_Witness ==
    /\ pc = "key"
    /\ noneRun >= 2
    /\ in_rgb # None
    /\ lastBatch # <<>>
    /\ rendered
    /\ Len(drawn) = Len(lastBatch)

\* C5 as stated: in every iteration whose frame poll returned None nothing is
\* drawn or shown.
C5_NoRenderWithoutNewFrame ==
    (pc = "key" /\ in_rgb = None) => (~rendered /\ drawn = <<>>)

\* C5 amended: in every iteration whose frame poll returned None while no
\* frame is held from an earlier iteration nothing is drawn or shown, and the
\* loop never fails, also while no frame has ever been received.
C5_NoRenderWithoutFrame ==
    /\ pc # "crashed"
    /\ (pc = "key" /\ in_rgb = None /\ nFrames = 0) =>
          (~rendered /\ drawn = <<>> /\ shown = None /\ canvas = {})

\* a batch with detections is held, no frame has ever arrived, and the render
\* step has passed
C5_Witness ==
    /\ pc = "key"
    /\ in_rgb = None
    /\ nFrames = 0
    /\ detections # <<>>
    /\ iter >= 1

\* C6: when the key poll returns the quit key the loop exits in that step,
\* and after the exit nothing is polled, drawn or shown any more.
C6_QuitExits ==
    [][ /\ (pc = "key" /\ key' = QuitKey) => pc' = "done"
        /\ pc = "done" =>
              UNCHANGED <<nTryGetRgb, nTryGetNn, nWaitKey, drawn, shown,
                          canvas, rendered, frame, detections>> ]_vars

\* the loop was quit in its second iteration or later, with a frame held
C6_Witness ==
    /\ pc = "done"
    /\ key = QuitKey
    /\ frame # None
    /\ iter >= 2
    /\ iter < MaxIter

\* C7: the render step shows the image exactly when a frame is held after
\* the two polls, fresh or from an earlier iteration; before the first frame
\* has been received nothing is shown.
C7_RenderIffFrameHeld ==
    /\ pc = "key" =>
          /\ rendered <=> frame # None
          /\ rendered => (shown # None /\ shown[1].id = frame[1].id)
    /\ nFrames = 0 => (shown = None /\ ~rendered)

\* a frame held from an earlier iteration was shown again
C7_Witness ==
    /\ pc = "key"
    /\ rendered
    /\ in_rgb = None
    /\ frame # None
    /\ iter >= 1

\* C8: each queue is polled once per iteration; a frame poll that returned a
\* packet makes the held frame that packet's image, an nn poll that returned a
\* batch makes the held batch exactly that batch, a poll that returned None
\* leaves the held value alone, and a held value changes nowhere else.
C8_Replace ==
    [][ /\ pc = "update_frame" =>
              frame' = IF in_rgb # None
                       THEN Some([id |-> in_rgb[1].seq, shape |-> in_rgb[1].shape])
                       ELSE frame
        /\ pc = "update_detections" =>
              detections' = IF in_nn # None THEN in_nn[1].detections ELSE detections
        /\ frame' # frame => pc = "update_frame"
        /\ detections' # detections => pc = "update_detections"
        /\ pc' \in {"poll_rgb", "done"} =>
              (nTryGetRgb' = iter' /\ nTryGetNn' = iter') ]_vars

\* a second frame replaced the first and an empty batch replaced a batch
\* whose rectangles had been shown
C8_Witness ==
    /\ pc = "render"
    /\ nFrames >= 2
    /\ in_rgb # None
    /\ frame = Some(GetCvFrame(in_rgb[1]))
    /\ in_nn = Some([detections |-> <<>>])
    /\ detections = <<>>
    /\ shown # None
    /\ shown[1].rects # {}

\* C9: every image shown carries rectangles of the batch held at that render
\* only, none of an earlier, replaced batch.
C9_OnlyHeldBatchShown ==
    (pc = "key" /\ rendered) =>
        shown[1].rects = Range(DrawAll(frame[1], detections))

\* C10: the key is polled once per iteration, after the render step; the loop
\* exits only on 'q' and goes on to the next iteration on any other result.
C10_QuitOnlyOnQ ==
    [][ /\ nWaitKey' # nWaitKey => (pc = "key" /\ nWaitKey' = nWaitKey + 1)
        /\ pc' = "key" => pc = "render"
        /\ pc = "key" =>
              /\ nWaitKey' = nWaitKey + 1
              /\ pc' = "done" <=> key' = QuitKey
              /\ key' # QuitKey => (pc' = "poll_rgb" /\ iter' = iter + 1)
        /\ pc' = "done" => pc = "key"
        /\ pc' \in {"poll_rgb", "done"} => nWaitKey' = iter' ]_vars

\* two iterations went by without a frame or a batch; the key poll returned
\* another key and the loop stands at its next iteration
C10_Witness ==
    /\ pc = "poll_rgb"
    /\ iter >= 2
    /\ nFrames = 0
    /\ noneRun = nTryGetNn
    /\ key = 81

====
